---- MODULE Spec2Model ----
(***************************************************************************)
(* The estimation pipeline of the AI Kanban application:                   *)
(*   services/ai_services.py   AIEstimator.estimate_task                   *)
(*   ai_task_creator.py        /api/estimate, /api/create-ticket           *)
(*                                                                         *)
(* A Python str is a sequence of one-character strings.  The backquote     *)
(* character is written BQ.  A fixed run of prose that no code looks       *)
(* inside (the canned reasoning narratives, the error prefix) is written   *)
(* as one element.                                                         *)
(***************************************************************************)
EXTENDS Integers, Sequences, FiniteSets, TLC

BQ == "BQ"

\* ------------------------------------------------------------------ str

\* the characters str.strip() and str.split() treat as whitespace
WS == {" ", "\n", "\t", "\r"}

LowerLetters == <<"a", "b", "c", "d", "e", "f", "g", "h", "i", "j", "k", "l", "m",
                  "n", "o", "p", "q", "r", "s", "t", "u", "v", "w", "x", "y", "z">>

UpperLetters == <<"A", "B", "C", "D", "E", "F", "G", "H", "I", "J", "K", "L", "M",
                  "N", "O", "P", "Q", "R", "S", "T", "U", "V", "W", "X", "Y", "Z">>

IndexOf(c, letters) == CHOOSE i \in 1..Len(letters) : letters[i] = c

IsIn(c, letters) == \E i \in 1..Len(letters) : letters[i] = c

UpperChar(c) == IF IsIn(c, LowerLetters) THEN UpperLetters[IndexOf(c, LowerLetters)] ELSE c

LowerChar(c) == IF IsIn(c, UpperLetters) THEN LowerLetters[IndexOf(c, UpperLetters)] ELSE c

\* s[n:]
Drop(s, n) == IF n >= Len(s) THEN <<>> ELSE SubSeq(s, n + 1, Len(s))

\* s[:n]
Take(s, n) == SubSeq(s, 1, IF n < Len(s) THEN n ELSE Len(s))

\* s[:-n]
DropLast(s, n) == IF n >= Len(s) THEN <<>> ELSE SubSeq(s, 1, Len(s) - n)

StartsWith(s, p) == Len(s) >= Len(p) /\ SubSeq(s, 1, Len(p)) = p

EndsWith(s, p) == Len(s) >= Len(p) /\ SubSeq(s, Len(s) - Len(p) + 1, Len(s)) = p

\* sub in s
Contains(s, sub) == \E i \in 0..(Len(s) - Len(sub)) : SubSeq(s, i + 1, i + Len(sub)) = sub

\* the least element of a non-empty set of integers
Min(S) == CHOOSE i \in S : \A j \in S : i <= j

\* the indices of the non-blank characters of s
NonBlank(s) == {i \in 1..Len(s) : s[i] \notin WS}

\* s.lstrip()
LStrip(s) == IF NonBlank(s) = {} THEN <<>> ELSE SubSeq(s, Min(NonBlank(s)), Len(s))

\* s.rstrip()
RStrip(s) ==
    IF NonBlank(s) = {} THEN <<>>
    ELSE SubSeq(s, 1, CHOOSE i \in 1..Len(s) :
                         s[i] \notin WS /\ \A j \in (i + 1)..Len(s) : s[j] \in WS)

\* s.strip()
Strip(s) == RStrip(LStrip(s))

\* the first word of a string that starts with a non-blank character
FirstWord(s) ==
    LET blank == {i \in 1..Len(s) : s[i] \in WS}
    IN  IF blank = {} THEN s ELSE SubSeq(s, 1, Min(blank) - 1)

\* s.split(): the maximal runs of non-blank characters
RECURSIVE Split(_)
Split(s) ==
    LET t == LStrip(s)
        w == FirstWord(t)
    IN  IF t = <<>> THEN <<>> ELSE <<w>> \o Split(Drop(t, Len(w)))

\* sep.join(words)
RECURSIVE Join(_, _)
Join(words, sep) ==
    IF words = <<>> THEN <<>>
    ELSE IF Len(words) = 1 THEN words[1]
    ELSE words[1] \o sep \o Join(Tail(words), sep)

\* s.replace(a, b) for one-character a and b
Replace(s, a, b) == [i \in 1..Len(s) |-> IF s[i] = a THEN b ELSE s[i]]

\* s.capitalize(): first character upper-cased, the rest lower-cased
Capitalize(s) == [i \in 1..Len(s) |-> IF i = 1 THEN UpperChar(s[i]) ELSE LowerChar(s[i])]

\* s.lower()
Lower(s) == [i \in 1..Len(s) |-> LowerChar(s[i])]

\* --------------------------------------------------------- Python values

PStr(s) == [t |-> "str", s |-> s]

PInt(n) == [t |-> "int", n |-> n]

PFloat(f) == [t |-> "float", f |-> f]

PBool(b) == [t |-> "bool", b |-> b]

PNone == [t |-> "none"]

PList(l) == [t |-> "list", l |-> l]

\* a dict is a function from its keys (strs) to its values
PDict(d) == [t |-> "dict", d |-> d]

EmptyDict == PDict(<<>>)

IsStr(v) == v.t = "str"

\* isinstance(v, dict)
IsDict(v) == v.t = "dict"

\* bool(v)
Truthy(v) ==
    CASE v.t = "none" -> FALSE
      [] v.t = "bool" -> v.b
      [] v.t = "int" -> v.n # 0
      [] v.t = "float" -> TRUE
      [] v.t = "str" -> v.s # <<>>
      [] v.t = "list" -> v.l # <<>>
      [] v.t = "dict" -> DOMAIN v.d # {}

\* k in d
HasKey(d, k) == k \in DOMAIN d.d

\* d.get(k, default)
Get(d, k, default) == IF HasKey(d, k) THEN d.d[k] ELSE default

\* d[k] = v, and {**d, k: v}
DictSet(d, k, v) == PDict((k :> v) @@ d.d)

\* {**base, **over}
DictMerge(base, over) == PDict(over.d @@ base.d)

\* ------------------------------------------------------------ json.loads

JsonWS == {" ", "\t", "\n", "\r"}

Digits == <<"0", "1", "2", "3", "4", "5", "6", "7", "8", "9">>

DigitVal(c) == IndexOf(c, Digits) - 1

Fail == [ok |-> FALSE]

Ok(v, i) == [ok |-> TRUE, v |-> v, i |-> i]

RECURSIVE SkipWS(_, _)
SkipWS(s, i) == IF i <= Len(s) /\ s[i] \in JsonWS THEN SkipWS(s, i + 1) ELSE i

\* the character a backslash escape stands for (\b, \f and \uXXXX do not occur
\* in the replies modelled)
Unescape(c) ==
    CASE c = "\"" -> "\""
      [] c = "\\" -> "\\"
      [] c = "/" -> "/"
      [] c = "n" -> "\n"
      [] c = "t" -> "\t"
      [] c = "r" -> "\r"
      [] OTHER -> "invalid"

\* the index of the first character from i on that ends a run of plain
\* characters inside a string literal: a quote, a backslash or a control
\* character; Len(s) + 1 if there is none
NextSpecial(s, i) ==
    LET special == {j \in i..Len(s) : s[j] \in {"\"", "\\", "\n", "\t", "\r"}}
    IN  IF special = {} THEN Len(s) + 1 ELSE Min(special)

\* py_scanstring, strict: i is the index after the opening quote, or after an
\* escape; acc is the content read so far
RECURSIVE ScanString(_, _, _)
ScanString(s, i, acc) ==
    LET j == NextSpecial(s, i)
        run == acc \o SubSeq(s, i, j - 1)
    IN  IF j > Len(s) THEN Fail
        ELSE IF s[j] = "\"" THEN Ok(run, j + 1)
        ELSE IF s[j] = "\\" THEN
            IF j + 1 > Len(s) \/ Unescape(s[j + 1]) = "invalid" THEN Fail
            ELSE ScanString(s, j + 2, Append(run, Unescape(s[j + 1])))
        ELSE Fail

\* the digits of an integer literal from index i on: (value, next index)
RECURSIVE ScanDigits(_, _, _)
ScanDigits(s, i, acc) ==
    IF i <= Len(s) /\ IsIn(s[i], Digits) THEN ScanDigits(s, i + 1, acc * 10 + DigitVal(s[i]))
    ELSE <<acc, i>>

\* NUMBER_RE of json.scanner, integer part: -?(0|[1-9][0-9]*); the replies
\* modelled hold no fraction or exponent
ScanNumber(s, i) ==
    LET neg == s[i] = "-"
        j == IF neg THEN i + 1 ELSE i
    IN  IF j > Len(s) \/ ~IsIn(s[j], Digits) THEN Fail
        ELSE IF s[j] = "0" THEN Ok(PInt(0), j + 1)
        ELSE LET r == ScanDigits(s, j, 0)
             IN  Ok(PInt(IF neg THEN 0 - r[1] ELSE r[1]), r[2])

L_null == <<"n", "u", "l", "l">>

L_true == <<"t", "r", "u", "e">>

L_false == <<"f", "a", "l", "s", "e">>

L_NaN == <<"N", "a", "N">>

L_Infinity == <<"I", "n", "f", "i", "n", "i", "t", "y">>

L_NegInfinity == <<"-">> \o L_Infinity

At(s, i, lit) == i + Len(lit) - 1 <= Len(s) /\ SubSeq(s, i, i + Len(lit) - 1) = lit

RECURSIVE ScanOnce(_, _), ScanObject(_, _, _), ScanArray(_, _, _)

\* json.scanner.py_make_scanner._scan_once
ScanOnce(s, i) ==
    IF i > Len(s) THEN Fail
    ELSE IF s[i] = "\"" THEN
        LET r == ScanString(s, i + 1, <<>>)
        IN  IF r.ok THEN Ok(PStr(r.v), r.i) ELSE Fail
    ELSE IF s[i] = "{" THEN ScanObject(s, i + 1, <<>>)
    ELSE IF s[i] = "[" THEN ScanArray(s, i + 1, <<>>)
    ELSE IF At(s, i, L_null) THEN Ok(PNone, i + 4)
    ELSE IF At(s, i, L_true) THEN Ok(PBool(TRUE), i + 4)
    ELSE IF At(s, i, L_false) THEN Ok(PBool(FALSE), i + 5)
    ELSE IF ScanNumber(s, i).ok THEN ScanNumber(s, i)
    ELSE IF At(s, i, L_NaN) THEN Ok(PFloat("nan"), i + 3)
    ELSE IF At(s, i, L_Infinity) THEN Ok(PFloat("inf"), i + 8)
    ELSE IF At(s, i, L_NegInfinity) THEN Ok(PFloat("-inf"), i + 9)
    ELSE Fail

\* json.decoder.JSONObject: i is the index after "{" or after a ","; d is the
\* dict built so far (a repeated key keeps its last value)
ScanObject(s, i, d) ==
    LET j == SkipWS(s, i)
    IN  IF j > Len(s) THEN Fail
        ELSE IF s[j] = "}" /\ d = <<>> /\ s[i - 1] = "{" THEN Ok(EmptyDict, j + 1)
        ELSE IF s[j] # "\"" THEN Fail
        ELSE LET k == ScanString(s, j + 1, <<>>)
             IN  IF ~k.ok THEN Fail
                 ELSE LET c == SkipWS(s, k.i)
                      IN  IF c > Len(s) \/ s[c] # ":" THEN Fail
                          ELSE LET v == ScanOnce(s, SkipWS(s, c + 1))
                               IN  IF ~v.ok THEN Fail
                                   ELSE LET e == SkipWS(s, v.i)
                                            d2 == (k.v :> v.v) @@ d
                                        IN  IF e > Len(s) THEN Fail
                                            ELSE IF s[e] = "}" THEN Ok(PDict(d2), e + 1)
                                            ELSE IF s[e] = "," THEN ScanObject(s, e + 1, d2)
                                            ELSE Fail

\* json.decoder.JSONArray: i is the index after "[" or after a ","
ScanArray(s, i, l) ==
    LET j == SkipWS(s, i)
    IN  IF j > Len(s) THEN Fail
        ELSE IF s[j] = "]" /\ l = <<>> /\ s[i - 1] = "[" THEN Ok(PList(<<>>), j + 1)
        ELSE LET v == ScanOnce(s, j)
             IN  IF ~v.ok THEN Fail
                 ELSE LET e == SkipWS(s, v.i)
                      IN  IF e > Len(s) THEN Fail
                          ELSE IF s[e] = "]" THEN Ok(PList(Append(l, v.v)), e + 1)
                          ELSE IF s[e] = "," THEN ScanArray(s, e + 1, Append(l, v.v))
                          ELSE Fail

\* json.loads(s): Fail stands for JSONDecodeError
Loads(s) ==
    LET r == ScanOnce(s, SkipWS(s, 1))
    IN  IF r.ok /\ SkipWS(s, r.i) = Len(s) + 1 THEN r ELSE Fail

\* ------------------------------------------------- keys and literal values

k_success == <<"s", "u", "c", "c", "e", "s", "s">>

k_error == <<"e", "r", "r", "o", "r">>

k_title == <<"t", "i", "t", "l", "e">>

k_estimated_time == <<"e", "s", "t", "i", "m", "a", "t", "e", "d", "_", "t", "i", "m", "e">>

k_priority == <<"p", "r", "i", "o", "r", "i", "t", "y">>

k_complexity_level == <<"c", "o", "m", "p", "l", "e", "x", "i", "t", "y", "_", "l", "e", "v", "e", "l">>

k_dependencies == <<"d", "e", "p", "e", "n", "d", "e", "n", "c", "i", "e", "s">>

k_required_access == <<"r", "e", "q", "u", "i", "r", "e", "d", "_", "a", "c", "c", "e", "s", "s">>

k_suggested_labels == <<"s", "u", "g", "g", "e", "s", "t", "e", "d", "_", "l", "a", "b", "e", "l", "s">>

k_reasoning == <<"r", "e", "a", "s", "o", "n", "i", "n", "g">>

k_task == <<"t", "a", "s", "k">>

k_ticket_id == <<"t", "i", "c", "k", "e", "t", "_", "i", "d">>

k_ticket_number == <<"t", "i", "c", "k", "e", "t", "_", "n", "u", "m", "b", "e", "r">>

k_estimate == <<"e", "s", "t", "i", "m", "a", "t", "e">>

k_edited_description == <<"e", "d", "i", "t", "e", "d", "_", "d", "e", "s", "c", "r", "i", "p", "t", "i", "o", "n">>

k_edited_priority == <<"e", "d", "i", "t", "e", "d", "_", "p", "r", "i", "o", "r", "i", "t", "y">>

k_ticket == <<"t", "i", "c", "k", "e", "t">>

s_TaskNeedsAnalysis == <<"T", "a", "s", "k", " ", "N", "e", "e", "d", "s", " ", "A", "n", "a", "l", "y", "s", "i", "s">>

s_1week == <<"1", " ", "w", "e", "e", "k">>

s_Medium == <<"M", "e", "d", "i", "u", "m">>

s_InitialProjectSetup == <<"I", "n", "i", "t", "i", "a", "l", " ", "p", "r", "o", "j", "e", "c", "t", " ", "s", "e", "t", "u", "p">>

s_DevEnvAccess == <<"D", "e", "v", "e", "l", "o", "p", "m", "e", "n", "t", " ", "E", "n", "v", "i", "r", "o", "n", "m", "e", "n", "t", " ", "A", "c", "c", "e", "s", "s">>

s_VersionControl == <<"V", "e", "r", "s", "i", "o", "n", " ", "C", "o", "n", "t", "r", "o", "l", " ", "S", "y", "s", "t", "e", "m", " ", "(", "G", "i", "t", "H", "u", "b", "/", "G", "i", "t", "L", "a", "b", ")">>

s_TestingEnv == <<"T", "e", "s", "t", "i", "n", "g", " ", "E", "n", "v", "i", "r", "o", "n", "m", "e", "n", "t">>

s_feature == <<"f", "e", "a", "t", "u", "r", "e">>

s_development == <<"d", "e", "v", "e", "l", "o", "p", "m", "e", "n", "t">>

s_ManualReview == <<"M", "a", "n", "u", "a", "l", " ", "R", "e", "v", "i", "e", "w", " ", "R", "e", "q", "u", "i", "r", "e", "d">>

s_Unknown == <<"U", "n", "k", "n", "o", "w", "n">>

s_ReqGathering == <<"R", "e", "q", "u", "i", "r", "e", "m", "e", "n", "t", "s", " ", "g", "a", "t", "h", "e", "r", "i", "n", "g", " ", "n", "e", "e", "d", "e", "d">>

s_ToBeDetermined == <<"T", "o", " ", "b", "e", " ", "d", "e", "t", "e", "r", "m", "i", "n", "e", "d">>

s_needs_analysis == <<"n", "e", "e", "d", "s", "-", "a", "n", "a", "l", "y", "s", "i", "s">>

s_NewTicket == <<"N", "e", "w", " ", "T", "i", "c", "k", "e", "t">>

s_TBD == <<"T", "B", "D">>

s_medium == <<"m", "e", "d", "i", "u", "m">>

s_new == <<"n", "e", "w">>

Fence_json == <<BQ, BQ, BQ, "j", "s", "o", "n">>

Fence == <<BQ, BQ, BQ>>

m_503 == <<"5", "0", "3">>

m_UNAVAILABLE == <<"U", "N", "A", "V", "A", "I", "L", "A", "B", "L", "E">>

\* ------------------------------------- results of code that may raise

Ret(v) == [raised |-> FALSE, v |-> v]

\* an exception e, with msg = str(e)
Raise(msg) == [raised |-> TRUE, msg |-> msg]

\* type(v).__name__
TypeName(v) ==
    CASE v.t = "none" -> "NoneType"
      [] v.t = "bool" -> "bool"
      [] v.t = "int" -> "int"
      [] v.t = "float" -> "float"
      [] v.t = "str" -> "str"
      [] v.t = "list" -> "list"
      [] v.t = "dict" -> "dict"

\* v.<attr> on a value that has no such attribute
AttributeError(v, attr) == Raise(<<"'", TypeName(v), "' object has no attribute '", attr, "'">>)

\* the exception of reading a local variable that no statement has assigned
UnboundLocalError(name) ==
    Raise(<<"cannot access local variable '", name,
            "' where it is not associated with a value">>)

\* ------------------------------------------- AIEstimator.estimate_task

\* the "Remove markdown code blocks" step, between the two strip() calls
StripFences(text) ==
    LET t0 == Strip(text)
        t1 == IF StartsWith(t0, Fence_json) THEN Drop(t0, 7) ELSE t0
        t2 == IF StartsWith(t1, Fence) THEN Drop(t1, 3) ELSE t1
        t3 == IF EndsWith(t2, Fence) THEN DropLast(t2, 3) ELSE t2
    IN  Strip(t3)

\* "Ensure required_access is always an array"
CoerceRequiredAccess(estimate_data) ==
    IF HasKey(estimate_data, k_required_access) /\ IsStr(estimate_data.d[k_required_access])
    THEN DictSet(estimate_data, k_required_access, PList(<<estimate_data.d[k_required_access]>>))
    ELSE estimate_data

\* {"success": True, "title": estimate_data.get("title", ""), **estimate_data}
TagSuccess(estimate_data) ==
    DictMerge(PDict((k_success :> PBool(TRUE))
                    @@ (k_title :> Get(estimate_data, k_title, PStr(<<>>)))),
              estimate_data)

\* the body of the inner try, after json.loads returned estimate_data: the
\* dict or the exception it ends with
ParsedEstimate(estimate_data) ==
    CASE estimate_data.t = "dict" ->
            Ret(TagSuccess(CoerceRequiredAccess(estimate_data)))
      [] estimate_data.t = "list" ->
            IF \E i \in 1..Len(estimate_data.l) : estimate_data.l[i] = PStr(k_required_access)
            THEN Raise(<<"list indices must be integers or slices, not str">>)
            ELSE AttributeError(estimate_data, "get")
      [] estimate_data.t = "str" ->
            IF Contains(estimate_data.s, k_required_access)
            THEN Raise(<<"string indices must be integers, not 'str'">>)
            ELSE AttributeError(estimate_data, "get")
      [] OTHER ->
            Raise(<<"argument of type '", TypeName(estimate_data), "' is not iterable">>)

\* the canned estimate of the except json.JSONDecodeError branch
FallbackEstimate(task_description) ==
    PDict((k_success :> PBool(TRUE))
       @@ (k_title :> PStr(s_TaskNeedsAnalysis))
       @@ (k_estimated_time :> PStr(s_1week))
       @@ (k_priority :> PStr(s_Medium))
       @@ (k_complexity_level :> PStr(s_Medium))
       @@ (k_dependencies :> PList(<<PStr(s_InitialProjectSetup)>>))
       @@ (k_required_access :> PList(<<PStr(s_DevEnvAccess), PStr(s_VersionControl),
                                        PStr(s_TestingEnv)>>))
       @@ (k_suggested_labels :> PList(<<PStr(s_feature), PStr(s_development)>>))
       @@ (k_reasoning :> PStr(<<"Phase 1: Technical Breakdown\n Overview: ">>
                               \o Take(task_description, 200)
                               \o <<". Standard development workflow ... Phase 1: ... Phase 2: ... Phase 3: ...">>)))

\* FailedEstimate with the exception's text left out of the error
FailedEstimate_nomsg(msg) ==
    PDict((k_success :> PBool(FALSE))
       @@ (k_error :> PStr(<<"AI Generation failed">>))
       @@ (k_title :> PStr(s_ManualReview))
       @@ (k_estimated_time :> PStr(s_Unknown))
       @@ (k_priority :> PStr(s_Medium))
       @@ (k_complexity_level :> PStr(s_Medium))
       @@ (k_dependencies :> PList(<<PStr(s_ReqGathering)>>))
       @@ (k_required_access :> PList(<<PStr(s_ToBeDetermined)>>))
       @@ (k_suggested_labels :> PList(<<PStr(s_needs_analysis)>>))
       @@ (k_reasoning :> PStr(<<"Phase 1: Technical Breakdown\nOverview: AI estimation service temporarily unavailable. ... Phase 1: ... Phase 2: ... Phase 3: ...">>)))

\* the canned estimate of the outer except Exception branch
FailedEstimate(msg) ==
    PDict((k_success :> PBool(FALSE))
       @@ (k_error :> PStr(<<"AI Generation failed: ">> \o msg))
       @@ (k_title :> PStr(s_ManualReview))
       @@ (k_estimated_time :> PStr(s_Unknown))
       @@ (k_priority :> PStr(s_Medium))
       @@ (k_complexity_level :> PStr(s_Medium))
       @@ (k_dependencies :> PList(<<PStr(s_ReqGathering)>>))
       @@ (k_required_access :> PList(<<PStr(s_ToBeDetermined)>>))
       @@ (k_suggested_labels :> PList(<<PStr(s_needs_analysis)>>))
       @@ (k_reasoning :> PStr(<<"Phase 1: Technical Breakdown\nOverview: AI estimation service temporarily unavailable. ... Phase 1: ... Phase 2: ... Phase 3: ...">>)))

\* ParseResponse without the except json.JSONDecodeError branch
ParseResponse_nocatch(task_description, text) ==
    IF text.t # "str" THEN AttributeError(text, "strip")
    ELSE LET r == Loads(StripFences(text.s))
         IN  IF r.ok THEN ParsedEstimate(r.v)
             ELSE Raise(<<"Expecting value: line 1 column 1 (char 0)">>)

\* estimate_task from "# Parse JSON from response" to its last return, given
\* response.text: the dict it returns or the exception it ends with
ParseResponse(task_description, text) ==
    IF text.t # "str" THEN AttributeError(text, "strip")
    ELSE LET r == Loads(StripFences(text.s))
         IN  IF r.ok THEN ParsedEstimate(r.v)
             ELSE Ret(FallbackEstimate(task_description))

\* what estimate_task returns once a model call returned response.text
EstimateOf(task_description, text) ==
    LET r == ParseResponse(task_description, text)
    IN  IF r.raised THEN FailedEstimate(r.msg) ELSE r.v

\* "503" in str(e) or "UNAVAILABLE" in str(e)
IsTransient(msg) == Contains(msg, m_503) \/ Contains(msg, m_UNAVAILABLE)

\* --------------------------------------------------------------- inputs

\* json.dumps, for writing down the text of a reply that carries a JSON value
EscapeChar(c) ==
    CASE c = "\"" -> <<"\\", "\"">>
      [] c = "\\" -> <<"\\", "\\">>
      [] c = "\n" -> <<"\\", "n">>
      [] c = "\t" -> <<"\\", "t">>
      [] c = "\r" -> <<"\\", "r">>
      [] OTHER -> <<c>>

RECURSIVE Escape(_)
Escape(s) ==
    IF s = <<>> THEN <<>>
    ELSE IF Len(s) = 1 THEN EscapeChar(s[1])
    ELSE LET half == Len(s) \div 2
         IN  Escape(SubSeq(s, 1, half)) \o Escape(SubSeq(s, half + 1, Len(s)))

RECURSIVE DumpsNat(_)
DumpsNat(n) == IF n < 10 THEN <<Digits[n + 1]>> ELSE DumpsNat(n \div 10) \o <<Digits[(n % 10) + 1]>>

RECURSIVE Dumps(_), DumpsItems(_), DumpsPairs(_, _)

Dumps(v) ==
    CASE v.t = "none" -> L_null
      [] v.t = "bool" -> IF v.b THEN L_true ELSE L_false
      [] v.t = "int" -> IF v.n < 0 THEN <<"-">> \o DumpsNat(0 - v.n) ELSE DumpsNat(v.n)
      [] v.t = "float" -> IF v.f = "nan" THEN L_NaN ELSE IF v.f = "inf" THEN L_Infinity ELSE L_NegInfinity
      [] v.t = "str" -> <<"\"">> \o Escape(v.s) \o <<"\"">>
      [] v.t = "list" -> <<"[">> \o DumpsItems(v.l) \o <<"]">>
      [] v.t = "dict" -> <<"{">> \o DumpsPairs(v.d, DOMAIN v.d) \o <<"}">>

DumpsItems(l) ==
    IF l = <<>> THEN <<>>
    ELSE IF Len(l) = 1 THEN Dumps(l[1])
    ELSE Dumps(l[1]) \o <<",", " ">> \o DumpsItems(Tail(l))

DumpsPairs(d, keys) ==
    IF keys = {} THEN <<>>
    ELSE LET k == CHOOSE x \in keys : TRUE
             one == <<"\"">> \o Escape(k) \o <<"\"", ":", " ">> \o Dumps(d[k])
         IN  IF keys = {k} THEN one ELSE one \o <<",", " ">> \o DumpsPairs(d, keys \ {k})

\* JSON values a reply may carry
\* a well-formed reply: a 4-word title and every field of the requested shape
J_full ==
    PDict((k_title :> PStr(<<"A", "d", "d", " ", "u", "s", "e", "r", " ", "e", "m", "a", "i", "l", " ", "l", "o", "g", "i", "n">>))
       @@ (k_estimated_time :> PStr(<<"2", " ", "d", "a", "y", "s">>))
       @@ (k_priority :> PStr(<<"H", "i", "g", "h">>))
       @@ (k_complexity_level :> PStr(<<"L", "o", "w">>))
       @@ (k_dependencies :> PList(<<PStr(<<"a", "u", "t", "h", " ", "s", "e", "r", "v", "i", "c", "e">>)>>))
       @@ (k_required_access :> PList(<<PStr(<<"G", "i", "t", "H", "u", "b", " ", "R", "e", "p", "o", "s", "i", "t", "o", "r", "y", " ", "W", "r", "i", "t", "e", " ", "A", "c", "c", "e", "s", "s">>)>>))
       @@ (k_suggested_labels :> PList(<<PStr(<<"a", "u", "t", "h">>), PStr(<<"b", "a", "c", "k", "e", "n", "d">>)>>))
       @@ (k_reasoning :> PStr(<<"O", "v", "e", "r", "v", "i", "e", "w", ":", " ", "l", "o", "g", "i", "n", ".", "\n", "P", "h", "a", "s", "e", " ", "1", ":", " ", ".", ".", ".">>)))

\* bare strings where arrays are asked for; a padded 3-word title
J_scalars ==
    PDict((k_title :> PStr(<<" ", "F", "i", "x", " ", "l", "o", "g", "i", "n", " ", "b", "u", "g", " ">>))
       @@ (k_estimated_time :> PStr(<<"1", " ", "d", "a", "y">>))
       @@ (k_priority :> PStr(<<"L", "o", "w">>))
       @@ (k_complexity_level :> PStr(<<"L", "o", "w">>))
       @@ (k_dependencies :> PStr(<<"a", "u", "t", "h", " ", "s", "e", "r", "v", "i", "c", "e">>))
       @@ (k_required_access :> PStr(<<"G", "i", "t", "H", "u", "b">>))
       @@ (k_suggested_labels :> PStr(<<"b", "u", "g">>))
       @@ (k_reasoning :> PStr(<<"r">>)))

\* a 1-word title and nothing else
J_sparse ==
    PDict((k_title :> PStr(<<"L", "o", "g", "i", "n">>)))

\* no title; reasoning only
J_notitle ==
    PDict((k_reasoning :> PStr(<<"r">>)))

\* a reply that carries its own "success" key; a 7-word title
J_unsuccess ==
    PDict((k_success :> PBool(FALSE))
       @@ (k_title :> PStr(<<"A", "d", "d", " ", "a", " ", "n", "e", "w", " ", "u", "s", "e", "r", " ", "l", "o", "g", "i", "n", " ", "w", "i", "t", "h", " ", "e", "m", "a", "i", "l">>))
       @@ (k_estimated_time :> PStr(<<"2", " ", "d", "a", "y", "s">>))
       @@ (k_priority :> PStr(<<"H", "i", "g", "h">>))
       @@ (k_complexity_level :> PStr(<<"L", "o", "w">>))
       @@ (k_dependencies :> PList(<<PStr(<<"a", "u", "t", "h", " ", "s", "e", "r", "v", "i", "c", "e">>)>>))
       @@ (k_required_access :> PList(<<PStr(<<"G", "i", "t", "H", "u", "b", " ", "R", "e", "p", "o", "s", "i", "t", "o", "r", "y", " ", "W", "r", "i", "t", "e", " ", "A", "c", "c", "e", "s", "s">>)>>))
       @@ (k_suggested_labels :> PList(<<PStr(<<"a", "u", "t", "h">>), PStr(<<"b", "a", "c", "k", "e", "n", "d">>)>>))
       @@ (k_reasoning :> PStr(<<"O", "v", "e", "r", "v", "i", "e", "w", ":", " ", "l", "o", "g", "i", "n", ".", "\n", "P", "h", "a", "s", "e", " ", "1", ":", " ", ".", ".", ".">>)))

\* a 6-word title; null for other fields
J_six ==
    PDict((k_title :> PStr(<<"A", "d", "d", " ", "n", "e", "w", " ", "u", "s", "e", "r", " ", "l", "o", "g", "i", "n", " ", "w", "i", "t", "h", " ", "e", "m", "a", "i", "l">>))
       @@ (k_estimated_time :> PNone)
       @@ (k_dependencies :> PNone)
       @@ (k_suggested_labels :> PList(<<>>)))

\* numbers where strings and arrays are asked for
J_numbers ==
    PDict((k_title :> PInt(5))
       @@ (k_dependencies :> PInt(5))
       @@ (k_required_access :> PInt(0))
       @@ (k_suggested_labels :> PInt(7))
       @@ (k_reasoning :> PInt(12)))

\* a top-level array
J_list ==
    PList(<<PStr(<<"r", "e", "q", "u", "i", "r", "e", "d", "_", "a", "c", "c", "e", "s", "s">>), PStr(<<"x">>)>>)

\* a top-level array without the word required_access
J_listx ==
    PList(<<PStr(<<"x">>)>>)

\* a top-level string
J_str ==
    PStr(<<"o", "k">>)

\* a top-level number
J_int ==
    PInt(5)

\* the JSON null
J_null ==
    PNone

JsonValues == {J_full, J_scalars, J_sparse, J_notitle, J_unsuccess, J_six, J_numbers, J_list, J_listx, J_str, J_int, J_null}

\* reply texts that are not JSON
\* an empty reply
T_empty == <<>>

\* prose instead of JSON
T_prose == <<"S", "o", "r", "r", "y", ",", " ", "I", " ", "c", "a", "n", "n", "o", "t", ".">>

\* JSON cut off by the output limit
T_truncated == <<BQ, BQ, BQ, "j", "s", "o", "n", "\n", "{", "\"", "t", "i", "t", "l", "e", "\"", ":", " ", "\"", "A", "d", "d", " ", "u", "s">>

\* a trailing comma
T_trailing_comma == <<"{", "\"", "t", "i", "t", "l", "e", "\"", ":", " ", "\"", "L", "o", "g", "i", "n", "\"", ",", "}">>

\* fences around nothing
T_fence_only == <<BQ, BQ, BQ, "j", "s", "o", "n", "\n", BQ, BQ, BQ>>

\* a fence tagged JSON in capitals
T_upper_fence == <<BQ, BQ, BQ, "J", "S", "O", "N", "\n", "{", "\"", "t", "i", "t", "l", "e", "\"", ":", " ", "\"", "L", "o", "g", "i", "n", "\"", "}", "\n", BQ, BQ, BQ>>

BadTexts == {T_empty, T_prose, T_truncated, T_trailing_comma, T_fence_only, T_upper_fence}

task_raw == <<" ", "a", "d", "d", " ", "u", "s", "e", "r", " ", "L", "o", "g", "i", "n", "\n", "w", "i", "t", "h", " ", "e", "m", "a", "i", "l", " ", "a", "n", "d", " ", "p", "a", "s", "s", "w", "o", "r", "d", " ">>

task_short == <<"f", "i", "x", " ", "b", "u", "g">>

\* a long task text: one word of LongLen characters
LongLen == 203

task_long == [i \in 1..LongLen |-> "x"]

\* ```json <newline> text <newline> ```
JsonFenced(text) == Fence_json \o <<"\n">> \o text \o <<"\n">> \o Fence

\* <newline> ``` <newline> text <newline> ``` <newline>
BareFenced(text) == <<"\n">> \o Fence \o <<"\n">> \o text \o <<"\n">> \o Fence \o <<" ", "\n">>

FencedValues == {J_full, J_unsuccess, J_listx}

\* response.text of a model call that returned: a str, or None when the
\* response holds no text part
Replies ==
    {PStr(Dumps(j)) : j \in JsonValues}
    \cup {PStr(JsonFenced(Dumps(j))) : j \in FencedValues}
    \cup {PStr(BareFenced(Dumps(J_full))), PStr(BareFenced(Dumps(J_scalars)))}
    \cup {PStr(t) : t \in BadTexts}
    \cup {PNone}

\* str(e) of the exceptions generate_content may raise: two that signal that
\* the service is unavailable, and two that do not
e_503 == m_503 \o <<" ", "S", "e", "r", "v", "i", "c", "e">>

e_UNAVAILABLE == <<"{", "s", "t", "a", "t", "u", "s", ":", " ">> \o m_UNAVAILABLE \o <<"}">>

e_429 == <<"4", "2", "9", " ", "u", "n", "a", "v", "a", "i", "l", "a", "b", "l", "e">>

e_empty == <<>>

TransientMessages == {e_503, e_UNAVAILABLE}

OtherMessages == {e_429, e_empty}

Messages == TransientMessages \cup OtherMessages

\* request.get_json() of a POST to /api/estimate
EstimateBodies ==
    {PNone,
     EmptyDict,
     PDict(k_task :> PStr(<<>>)),
     PDict(k_task :> PStr(<<" ", "\n", "\t", " ">>)),
     PDict(k_task :> PNone),
     PDict(k_task :> PInt(5)),
     PDict(k_task :> PStr(task_raw)),
     PDict(k_task :> PStr(task_short)),
     PDict(k_task :> PStr(task_long))}

\* the 8 random characters of a ticket number
TicketNumbers == {"0A1B2C3D", "FFFFFFFF"}

\* ------------------------------------------------------ ai_task_creator

\* jsonify(body), status
Http(status, body) == [status |-> status, body |-> body]

\* no response sent yet
NoHttp == [status |-> 0, body |-> PNone]

\* the except Exception branch of both handlers
ErrorResponse(msg) == Http(500, PDict((k_success :> PBool(FALSE)) @@ (k_error :> PStr(msg))))

\* generate_ticket_number, given the 8 characters uuid4 yields
generate_ticket_number(n) == PStr(<<"T", "K", "T", "-", n>>)

\* ticket_service._generate_ticket_id: a function of the task text alone
generate_ticket_id(task_description) == PStr(<<"id-of:">> \o task_description)

\* generate_short_title(task), max_words = 6; task is any Python value
generate_short_title(task) ==
    IF ~Truthy(task) THEN Ret(PStr(s_NewTicket))
    ELSE IF task.t # "str" THEN AttributeError(task, "replace")
    ELSE Ret(PStr(Capitalize(Join(Take(Split(Strip(Replace(task.s, "\n", " "))), 6), <<" ">>))))

\* TaskOf without the strip()
TaskOf_nostrip(data) ==
    IF data.t # "dict" THEN AttributeError(data, "get")
    ELSE LET task == Get(data, k_task, PStr(<<>>))
         IN  IF task.t # "str" THEN AttributeError(task, "strip") ELSE Ret(task.s)

\* data.get('task', '').strip()
TaskOf(data) ==
    IF data.t # "dict" THEN AttributeError(data, "get")
    ELSE LET task == Get(data, k_task, PStr(<<>>))
         IN  IF task.t # "str" THEN AttributeError(task, "strip") ELSE Ret(Strip(task.s))

\* if isinstance(x, str): x = [x]
WrapStr(x) == IF IsStr(x) THEN PList(<<x>>) ELSE x

\* the local variable title of get_ai_estimate
ResolveTitle(raw_title, task_description) ==
    IF IsStr(raw_title) /\ 3 <= Len(Split(raw_title.s)) /\ Len(Split(raw_title.s)) <= 6
    THEN Ret(PStr(Strip(raw_title.s)))
    ELSE generate_short_title(PStr(task_description))

\* the 'title' entry of response_data
ResponseTitle(ai_response, task_description) ==
    Get(ai_response, k_title, PStr(task_description))

\* response_data of get_ai_estimate
ResponseData(task_description, ai_response, ticket_number) ==
    PDict((k_success :> PBool(TRUE))
       @@ (k_ticket_id :> generate_ticket_id(task_description))
       @@ (k_ticket_number :> ticket_number)
       @@ (k_task :> PStr(task_description))
       @@ (k_title :> ResponseTitle(ai_response, task_description))
       @@ (k_estimate :>
             PDict((k_estimated_time :> Get(ai_response, k_estimated_time, PStr(s_Unknown)))
                @@ (k_priority :> Get(ai_response, k_priority, PStr(s_Medium)))
                @@ (k_complexity_level :> Get(ai_response, k_complexity_level, PStr(s_Medium)))
                @@ (k_dependencies :> WrapStr(Get(ai_response, k_dependencies, PList(<<>>))))
                @@ (k_required_access :> WrapStr(Get(ai_response, k_required_access, PList(<<>>))))
                @@ (k_suggested_labels :> WrapStr(Get(ai_response, k_suggested_labels, PList(<<>>))))
                @@ (k_reasoning :> Get(ai_response, k_reasoning, PStr(<<>>))))))

\* get_ai_estimate after estimate_task returned ai_response, inside its try:
\* the response it returns or the exception it ends with
AfterEstimate(task_description, ai_response, ticket_number) ==
    LET reasoning == Get(ai_response, k_reasoning, PStr(<<>>))
        title == ResolveTitle(Get(ai_response, k_title, PNone), task_description)
    IN  IF reasoning.t \notin {"str", "list"}
        THEN Raise(<<"'", TypeName(reasoning), "' object is not subscriptable">>)
        ELSE IF Truthy(Get(ai_response, k_success, PNone))
        THEN IF title.raised THEN title
             ELSE Ret(Http(200, ResponseData(task_description, ai_response, ticket_number)))
        ELSE Ret(Http(500, PDict((k_success :> PBool(FALSE))
                              @@ (k_error :> Get(ai_response, k_error,
                                                 PStr(<<"AI generation failed">>))))))

\* what get_ai_estimate answers once estimate_task returned ai_response
EstimateResponse(task_description, ai_response, ticket_number) ==
    LET r == AfterEstimate(task_description, ai_response, ticket_number)
    IN  IF r.raised THEN ErrorResponse(r.msg) ELSE r.v

\* StoreAfterEstimate if a successful estimate were saved as a ticket at once
StoreAfterEstimate_autocreate(store, response) ==
    IF response.status = 200
    THEN Append(store, [ticket_id |-> response.body.d[k_ticket_id],
                        ticket_number |-> response.body.d[k_ticket_number],
                        title |-> response.body.d[k_title]])
    ELSE store

\* the tickets in the store after get_ai_estimate answered: it "return[s] the
\* AI estimate WITHOUT creating the ticket"
StoreAfterEstimate(store, response) == store

\* KanbanTicket(...) of create_final_ticket: the ticket or the exception
NewTicket(data, fresh_number) ==
    IF data.t # "dict" THEN AttributeError(data, "get")
    ELSE LET given_number == Get(data, k_ticket_number, PNone)
             default_title == generate_short_title(Get(data, k_task, PStr(s_NewTicket)))
             priority == Get(data, k_edited_priority, PStr(s_medium))
             estimate == Get(data, k_estimate, EmptyDict)
         IN  IF default_title.raised THEN default_title
             ELSE IF priority.t # "str" THEN AttributeError(priority, "lower")
             ELSE IF estimate.t # "dict" THEN AttributeError(estimate, "get")
             ELSE Ret([ticket_id |-> Get(data, k_ticket_id, PNone),
                       ticket_number |-> IF Truthy(given_number) THEN given_number
                                         ELSE fresh_number,
                       title |-> Get(data, k_title, default_title.v),
                       description |-> Get(data, k_edited_description, PStr(<<>>)),
                       status |-> PStr(s_new),
                       priority |-> PStr(Lower(priority.s)),
                       estimated_time |-> Get(estimate, k_estimated_time, PStr(s_TBD)),
                       tags |-> Get(estimate, k_suggested_labels, PList(<<>>)),
                       access_required |-> Get(estimate, k_required_access, PList(<<>>)),
                       dependencies |-> Get(estimate, k_dependencies, PList(<<>>))])

\* KanbanTicket.to_dict
to_dict(ticket) == [t |-> "ticket", r |-> ticket]

\* db.session.add(new_ticket); db.session.commit()
Commit(store, ticket) == Append(store, ticket)

\* the user's confirmation of an estimate response: the response with the
\* edited fields added
Confirmation(body) ==
    DictMerge(body, PDict((k_edited_description :> PStr(<<"d">>))
                       @@ (k_edited_priority :> PStr(<<"H", "i", "g", "h">>))))

\* request.get_json() of a POST to /api/create-ticket, given the last response
CreateBodies(last) ==
    {PNone,
     EmptyDict,
     PDict((k_task :> PStr(task_short)) @@ (k_edited_priority :> PNone)),
     PDict((k_task :> PInt(5)))}
    \cup (IF last.status = 200 /\ HasKey(last.body, k_estimate)
          THEN {Confirmation(last.body)} ELSE {})

\* ------------------------------------------------------------ the system

max_retries == 3

initial_retry_delay == 2

\* the store holds at most MaxTickets tickets
MaxTickets == 2

VARIABLES
    pc,                \* where the handling of the /api/estimate request is
    request,           \* the body of the last /api/estimate request
    task_description,  \* get_ai_estimate's and estimate_task's task_description
    attempt,           \* estimate_task's loop variable
    retry_delay,       \* estimate_task's retry_delay
    outcomes,          \* of each generate_content call of this request
    delays,            \* the time.sleep arguments of this request, in order
    response,          \* response.text of the call that returned
    ai_response,       \* what estimate_task returned
    http,              \* the last response sent, of either endpoint
    tickets,           \* the rows of the ticket store
    estimated_ok       \* some /api/estimate request was answered success=true

vars == <<pc, request, task_description, attempt, retry_delay, outcomes, delays,
          response, ai_response, http, tickets, estimated_ok>>

NoRequest == [t |-> "norequest"]

Returned == [ok |-> TRUE]

Raised(msg) == [ok |-> FALSE, msg |-> msg]

Init ==
    /\ pc = "idle"
    /\ request = NoRequest
    /\ task_description = <<>>
    /\ attempt = 0
    /\ retry_delay = initial_retry_delay
    /\ outcomes = <<>>
    /\ delays = <<>>
    /\ response = PNone
    /\ ai_response = PNone
    /\ http = NoHttp
    /\ tickets = <<>>
    /\ estimated_ok = FALSE

\* Retryable if the last attempt were retried like the earlier ones
Retryable_unbounded(msg, n) == IsTransient(msg)

\* Retryable if every exception were retried
Retryable_any(msg, n) == n < max_retries - 1

\* if "503" in str(e) or "UNAVAILABLE" in str(e): if attempt < max_retries - 1
Retryable(msg, n) == IsTransient(msg) /\ n < max_retries - 1

\* NextDelay without the doubling
NextDelay_same(d) == d

\* retry_delay *= 2
NextDelay(d) == d * 2

\* POST /api/estimate up to the call of ai_estimator.estimate_task, and
\* estimate_task up to its retry loop
EstimateRequest(data) ==
    /\ pc = "idle"
    /\ request' = data
    /\ attempt' = 0
    /\ retry_delay' = initial_retry_delay
    /\ outcomes' = <<>>
    /\ delays' = <<>>
    /\ response' = PNone
    /\ ai_response' = PNone
    /\ LET task == TaskOf(data)
       IN  IF task.raised
           THEN /\ http' = ErrorResponse(task.msg)
                /\ task_description' = <<>>
                /\ pc' = "idle"
           ELSE IF task.v = <<>>
           THEN /\ http' = Http(400, PDict((k_success :> PBool(FALSE))
                                  @@ (k_error :> PStr(<<"Task description is required">>))))
                /\ task_description' = <<>>
                /\ pc' = "idle"
           ELSE /\ http' = NoHttp
                /\ task_description' = task.v
                /\ pc' = "call"
    /\ UNCHANGED <<tickets, estimated_ok>>

\* generate_content returns a response: break
ModelReturns(text) ==
    /\ pc = "call"
    /\ outcomes' = Append(outcomes, Returned)
    /\ response' = text
    /\ pc' = "parse"
    /\ UNCHANGED <<request, task_description, attempt, retry_delay, delays,
                   ai_response, http, tickets, estimated_ok>>

\* generate_content raises e with str(e) = msg: retry after a delay, or raise
\* to the outer except, which returns the failed estimate
ModelRaises(msg) ==
    /\ pc = "call"
    /\ outcomes' = Append(outcomes, Raised(msg))
    /\ IF Retryable(msg, attempt)
       THEN /\ pc' = "sleep"
            /\ UNCHANGED ai_response
       ELSE /\ pc' = "respond"
            /\ ai_response' = FailedEstimate(msg)
    /\ UNCHANGED <<request, task_description, attempt, retry_delay, delays,
                   response, http, tickets, estimated_ok>>

\* time.sleep(retry_delay); retry_delay *= 2; the next iteration of the loop,
\* or the statement after the loop when range(max_retries) is exhausted
Sleep ==
    /\ pc = "sleep"
    /\ delays' = Append(delays, retry_delay)
    /\ retry_delay' = NextDelay(retry_delay)
    /\ attempt' = attempt + 1
    /\ pc' = IF attempt + 1 < max_retries THEN "call" ELSE "parse"
    /\ UNCHANGED <<request, task_description, outcomes, response, ai_response,
                   http, tickets, estimated_ok>>

\* the local variable response is assigned: some generate_content call returned
ResponseBound == \E i \in DOMAIN outcomes : outcomes[i].ok

\* estimate_task reads response.text, parses it and returns
Parse ==
    /\ pc = "parse"
    /\ ai_response' = IF ResponseBound
                      THEN EstimateOf(task_description, response)
                      ELSE FailedEstimate(UnboundLocalError("response").msg)
    /\ pc' = "respond"
    /\ UNCHANGED <<request, task_description, attempt, retry_delay, outcomes,
                   delays, response, http, tickets, estimated_ok>>

\* get_ai_estimate answers
Respond(n) ==
    /\ pc = "respond"
    /\ http' = EstimateResponse(task_description, ai_response, generate_ticket_number(n))
    /\ tickets' = StoreAfterEstimate(tickets, http')
    /\ estimated_ok' = (estimated_ok \/ Truthy(http'.body.d[k_success]))
    /\ pc' = "idle"
    /\ UNCHANGED <<request, task_description, attempt, retry_delay, outcomes,
                   delays, response, ai_response>>

\* POST /api/create-ticket; committed tells whether the store accepts the row
CreateTicket(data, n, committed) ==
    /\ pc = "idle"
    /\ LET new_ticket == NewTicket(data, generate_ticket_number(n))
       IN  IF new_ticket.raised
           THEN /\ http' = ErrorResponse(new_ticket.msg)
                /\ UNCHANGED tickets
           ELSE IF committed /\ Len(tickets) < MaxTickets
           THEN /\ tickets' = Commit(tickets, new_ticket.v)
                /\ http' = Http(200, PDict((k_success :> PBool(TRUE))
                                        @@ (k_ticket :> to_dict(new_ticket.v))))
           ELSE /\ http' = ErrorResponse(<<"(database error)">>)
                /\ UNCHANGED tickets
    /\ UNCHANGED <<pc, request, task_description, attempt, retry_delay, outcomes,
                   delays, response, ai_response, estimated_ok>>

\* one /api/estimate request after another, over every input modelled
EstimateNext ==
    \/ \E data \in EstimateBodies : EstimateRequest(data)
    \/ \E text \in Replies : ModelReturns(text)
    \/ \E msg \in Messages : ModelRaises(msg)
    \/ Sleep
    \/ Parse
    \/ \E n \in TicketNumbers : Respond(n)

EstimatorSpec == Init /\ [][EstimateNext]_vars

\* the inputs of the requests that are interleaved with /api/create-ticket
SomeBodies == {EmptyDict, PDict(k_task :> PStr(task_short))}

SomeReplies == {PStr(JsonFenced(Dumps(J_full))), PStr(Dumps(J_unsuccess)), PStr(T_prose)}

SomeMessages == {e_503, e_empty}

\* /api/estimate and /api/create-ticket requests in any order
Next ==
    \/ \E data \in SomeBodies : EstimateRequest(data)
    \/ \E text \in SomeReplies : ModelReturns(text)
    \/ \E msg \in SomeMessages : ModelRaises(msg)
    \/ Sleep
    \/ Parse
    \/ \E n \in TicketNumbers : Respond(n)
    \/ \E data \in CreateBodies(http), n \in TicketNumbers, committed \in BOOLEAN :
          CreateTicket(data, n, committed)

Spec == Init /\ [][Next]_vars

\* ------------------------------------------------------------- the claims

\* estimate_task has returned for the request at hand
EstimateReturned == pc \in {"respond", "idle"} /\ outcomes # <<>>

\* the first n outcomes are failures that signal an unavailable service
TransientUpTo(n) ==
    \A i \in 1..n : ~outcomes[i].ok /\ outcomes[i].msg \in TransientMessages

\* the model call succeeded on the last attempt made, after k failed ones
SucceededAfter(k) ==
    /\ Len(outcomes) = k + 1
    /\ outcomes[k + 1].ok
    /\ TransientUpTo(k)

\* C1: if the model call fails with a transient-unavailable error on the first
\* k attempts (k = 1 or 2) and succeeds on attempt k+1, that response is the
\* one parsed and returned, no further call is made, and exactly k backoff
\* delays are performed, the first of 2 units and each later one double the
\* previous.
C1_RetryThenSuccess ==
    \A k \in 1..2 :
        SucceededAfter(k) =>
            /\ pc \in {"parse", "respond", "idle"}
            /\ Len(delays) = k
            /\ delays[1] = 2
            /\ \A i \in 2..k : delays[i] = 2 * delays[i - 1] /\ delays[i] > delays[i - 1]
            /\ (EstimateReturned => ai_response = EstimateOf(task_description, response))

\* failures on attempts 1 and 2, success on attempt 3, and the request answered
C1_Witness ==
    /\ SucceededAfter(2)
    /\ pc = "idle"
    /\ delays = <<2, 4>>
    /\ http.status = 200

\* the invocation failed for good: the last call raised, and the error was
\* not a transient one or the call was the third
FailedForGood ==
    /\ outcomes # <<>>
    /\ ~outcomes[Len(outcomes)].ok
    /\ \/ outcomes[Len(outcomes)].msg \in OtherMessages
       \/ Len(outcomes) = 3

LastMessage == outcomes[Len(outcomes)].msg

\* ai_response is the failed Estimate that carries msg
IsFailedEstimate(msg) ==
    /\ ai_response.t = "dict"
    /\ ai_response.d[k_success] = PBool(FALSE)
    /\ HasKey(ai_response, k_error)
    /\ ai_response.d[k_error].t = "str"
    /\ ai_response.d[k_error].s # <<>>
    /\ EndsWith(ai_response.d[k_error].s, msg)

\* C2: whenever the model invocation fails for good (a non-transient error on
\* any attempt, or a transient error on all 3 attempts), estimate_task returns
\* an Estimate with success=false, a non-empty error string carrying the
\* failure description, and the canned neutral defaults.
C2_FailedEstimate ==
    FailedForGood =>
        /\ EstimateReturned
        /\ IsFailedEstimate(LastMessage)
        /\ ai_response.d[k_estimated_time] = PStr(s_Unknown)
        /\ ai_response.d[k_priority] = PStr(s_Medium)
        /\ ai_response.d[k_complexity_level] = PStr(s_Medium)
        /\ ai_response.d[k_suggested_labels] = PList(<<PStr(s_needs_analysis)>>)

\* three transient failures in a row, and the request answered
C2_Witness ==
    /\ Len(outcomes) = 3
    /\ TransientUpTo(3)
    /\ LastMessage = e_UNAVAILABLE
    /\ pc = "idle"
    /\ ai_response.d[k_success] = PBool(FALSE)
    /\ http.status = 500

\* C3: a model-call failure that is not a transient-unavailable error is never
\* retried: on whichever attempt it occurs it is the last call made, no delay
\* follows it (every delay belongs to an earlier failure), and the failure
\* reaches the caller as the failed Estimate.
C3_NoRetryOfOtherFailures ==
    \A i \in 1..Len(outcomes) :
        (~outcomes[i].ok /\ outcomes[i].msg \in OtherMessages) =>
            /\ i = Len(outcomes)
            /\ Len(delays) = i - 1
            /\ pc \in {"respond", "idle"}
            /\ IsFailedEstimate(outcomes[i].msg)

\* a non-transient failure on the second attempt, and the request answered
C3_Witness ==
    /\ Len(outcomes) = 2
    /\ TransientUpTo(1)
    /\ ~outcomes[2].ok
    /\ outcomes[2].msg = e_429
    /\ delays = <<2>>
    /\ pc = "idle"
    /\ http.status = 500

ArrayKeys == {k_dependencies, k_required_access, k_suggested_labels}

\* the estimate object of a successful /api/estimate response
IsEstimateResponse == http.status = 200 /\ HasKey(http.body, k_estimate)

\* C4: the dependencies, required_access and suggested_labels of the emitted
\* Estimate are always sequences, also when the model's JSON gives a scalar
\* for one of them, in the result of estimate_task and in the estimate object
\* of the /api/estimate response.
C4_ArraysAreSequences ==
    /\ EstimateReturned =>
          \A k \in ArrayKeys : HasKey(ai_response, k) => ai_response.d[k].t = "list"
    /\ (pc = "idle" /\ IsEstimateResponse) =>
          \A k \in ArrayKeys : http.body.d[k_estimate].d[k].t = "list"

EstimateKeys ==
    {k_title, k_estimated_time, k_priority, k_complexity_level, k_dependencies,
     k_required_access, k_suggested_labels, k_reasoning}

\* C5: every field of the Estimate is present and non-null in every Estimate
\* that estimate_task emits.
C5_FieldsPresent ==
    EstimateReturned =>
        \A k \in EstimateKeys : HasKey(ai_response, k) /\ ai_response.d[k] # PNone

\* the replies that are the text of JSON value j, bare or fenced
ValidJsonReplies(j) ==
    {PStr(Dumps(j)), PStr(JsonFenced(Dumps(j))), PStr(BareFenced(Dumps(j)))}

\* C6: for every model reply that is valid JSON, fenced or not, estimate_task
\* returns an Estimate tagged success=true whose fields equal those of the
\* embedded JSON (a string for required_access becoming a one-element array),
\* whatever the JSON holds.
C6_ValidJsonSucceeds ==
    \A j \in JsonValues :
        (EstimateReturned /\ outcomes[Len(outcomes)].ok /\ response \in ValidJsonReplies(j)) =>
            /\ ai_response.d[k_success] = PBool(TRUE)
            /\ (j.t = "dict" =>
                  \A k \in DOMAIN j.d \ {k_success, k_required_access} :
                      ai_response.d[k] = j.d[k])

\* C7: when the model call succeeds but the reply is not parsable JSON,
\* estimate_task returns the fallback Estimate: tagged success=true, without
\* an error field, holding the canned values and a reasoning that contains the
\* first 200 characters of the task text; it depends on the task text alone,
\* so any two unparsable replies give the same Estimate for the same task.
C7_UnparsableFallsBack ==
    (EstimateReturned /\ outcomes[Len(outcomes)].ok /\ response \in {PStr(t) : t \in BadTexts}) =>
        /\ ai_response = FallbackEstimate(task_description)
        /\ ai_response.d[k_success] = PBool(TRUE)
        /\ ~HasKey(ai_response, k_error)
        /\ ai_response.d[k_title] = PStr(s_TaskNeedsAnalysis)
        /\ ai_response.d[k_priority] = PStr(s_Medium)
        /\ Contains(ai_response.d[k_reasoning].s, Take(task_description, 200))
        /\ (Len(task_description) > 200 =>
               ~Contains(ai_response.d[k_reasoning].s, Take(task_description, 201)))

\* prose in reply to a task of more than 200 characters, and the request
\* answered with the fallback
C7_Witness ==
    /\ pc = "idle"
    /\ response = PStr(T_prose)
    /\ Len(task_description) > 200
    /\ ai_response = FallbackEstimate(task_description)
    /\ http.status = 200

\* the title the Title Resolver policy gives
PolicyTitle ==
    LET raw == Get(ai_response, k_title, PNone)
        words == IF raw.t = "str" THEN Len(Split(raw.s)) ELSE 0
    IN  IF words >= 3 /\ words <= 6 THEN PStr(Strip(raw.s))
        ELSE generate_short_title(PStr(task_description)).v

\* C8: the title of a successful /api/estimate response follows the Title
\* Resolver policy: the trimmed model title when it is a string of 3 to 6
\* words, else the title derived from the task text.
C8_TitleFollowsPolicy ==
    (pc = "idle" /\ IsEstimateResponse) => http.body.d[k_title] = PolicyTitle

BlankTask(data) ==
    /\ data.t = "dict"
    /\ \/ ~HasKey(data, k_task)
       \/ /\ data.d[k_task].t = "str"
          /\ \A i \in 1..Len(data.d[k_task].s) : data.d[k_task].s[i] \in {" ", "\n", "\t", "\r"}

\* C10: an /api/estimate request whose task text is empty, only whitespace or
\* absent is answered with a success=false error response, and the estimator
\* is not invoked for it.
C10_BlankTaskRejected ==
    (request # NoRequest /\ BlankTask(request)) =>
        /\ pc = "idle"
        /\ outcomes = <<>>
        /\ ai_response = PNone
        /\ http.status >= 400
        /\ http.body.d[k_success] = PBool(FALSE)

\* a task text of whitespace only, rejected
C10_Witness ==
    /\ request = PDict(k_task :> PStr(<<" ", "\n", "\t", " ">>))
    /\ http.status = 400
    /\ pc = "idle"

\* the sum of the numbers of s
RECURSIVE Total(_)
Total(s) == IF s = <<>> THEN 0 ELSE Head(s) + Total(Tail(s))

\* estimate_task is running: called, and not yet returned
EstimateRunning == pc \in {"call", "sleep", "parse"}

\* how far estimate_task is from returning: three steps for each iteration of
\* the loop that may still begin, less those taken in the current iteration
StepsLeft ==
    IF EstimateRunning
    THEN 3 * (max_retries - attempt)
           + (CASE pc = "call" -> 3 [] pc = "sleep" -> 2 [] pc = "parse" -> 1)
    ELSE 0

\* the resources estimate_task has used so far, and what it returned if it has
CallsAndDelaysBounded ==
    /\ Len(outcomes) <= 3
    /\ Len(delays) <= 2
    /\ Total(delays) <= 6
    /\ pc = "parse" => ResponseBound /\ outcomes[Len(outcomes)].ok
    /\ pc = "respond" =>
          /\ Len(outcomes) >= 1
          /\ IsDict(ai_response)
          /\ HasKey(ai_response, k_success)
          /\ HasKey(ai_response, k_title)

\* C11: for every sequence of model-call outcomes (success, transient failure,
\* non-transient failure) estimate_task terminates by returning an Estimate
\* dictionary and never raises to its caller, after at least 1 and at most 3
\* model calls and at most 2 backoff delays (at most 6 units of delay in
\* total); the response is read only on a path where some attempt succeeded.
C11_TerminatesWithinBudget ==
    /\ []CallsAndDelaysBounded
    /\ [][EstimateRunning => StepsLeft' < StepsLeft /\ StepsLeft' >= 0]_vars
    /\ [][EstimateRunning /\ ~EstimateRunning' => pc' = "respond"]_vars

\* the whole budget used: three transient failures, delays of 2 and 4 units,
\* and estimate_task has returned the failed Estimate to get_ai_estimate
C11_Witness ==
    /\ pc = "respond"
    /\ Len(outcomes) = 3
    /\ TransientUpTo(3)
    /\ Total(delays) = 6
    /\ IsDict(ai_response)
    /\ ai_response.d[k_success] = PBool(FALSE)

====
